---- MODULE Spec2Model ----
(***************************************************************************)
(* csv_insight: the tabular view engine (DataTable + the App's row         *)
(* lifecycle handlers) and the dataset comparison engine (DataComparator). *)
(*                                                                         *)
(* Cell values are tagged records (number / text / null / undefined), text *)
(* is a sequence of one-character strings so that String(), toLowerCase(), *)
(* includes() and the numeric parse are computed character by character.   *)
(* A row is a function from column names to cell values; a key that is not *)
(* in the DOMAIN of the row reads as undefined, as in JavaScript.          *)
(***************************************************************************)
EXTENDS Integers, Sequences, FiniteSets, TLC

VARIABLES
    data,            \* App state data.data (dataset 1 rows, 0-based in the code)
    columns,         \* data.columns
    rowCount,        \* data.meta.rowCount
    searchTerm,      \* DataTable state
    sortConfig,      \* DataTable state: <<>> (null) or <<[key, direction]>>
    selectionStart,  \* DataTable state: <<>> (null) or <<[rowIndex, colIndex]>>
    selectionEnd,
    isSelecting,
    editingCell,     \* DataTable state: <<>> (null) or <<[rowIndex, col]>>
    editValue,
    data2,           \* App state data2.data (dataset 2 rows)
    columns2,        \* data2.columns
    joinKey,         \* DataComparator state
    viewMode,        \* DataComparator state
    selectedRow,     \* DataComparator state: <<>> (null) or <<row>>
    inspected        \* the merged row the per-row diff was last evaluated on

tableVars == <<searchTerm, sortConfig, selectionStart, selectionEnd, isSelecting,
               editingCell, editValue>>
dataVars == <<data, columns, rowCount>>
compareVars == <<data2, columns2, joinKey, viewMode, selectedRow, inspected>>
vars == <<data, columns, rowCount, searchTerm, sortConfig, selectionStart,
          selectionEnd, isSelecting, editingCell, editValue, data2, columns2,
          joinKey, viewMode, selectedRow, inspected>>

(***************************************************************************)
(* Bounds of the model.                                                    *)
(***************************************************************************)
MaxRows == 2        \* rows per dataset drawn at Init, and the cap on Add Row

(***************************************************************************)
(* Values.                                                                 *)
(***************************************************************************)
Num(i) == [t |-> "num", n |-> i, s |-> <<>>]
Str(cs) == [t |-> "str", n |-> 0, s |-> cs]
Null == [t |-> "null", n |-> 0, s |-> <<>>]
Undefined == [t |-> "undefined", n |-> 0, s |-> <<>>]

\* row[k]
Get(row, k) == IF k \in DOMAIN row THEN row[k] ELSE Undefined

Front(s) == SubSeq(s, 1, Len(s) - 1)
Last(s) == s[Len(s)]
Range(s) == {s[i] : i \in 1..Len(s)}
Includes(s, e) == \E i \in 1..Len(s) : s[i] = e

Digit(d) == <<"0", "1", "2", "3", "4", "5", "6", "7", "8", "9">>[d + 1]

RECURSIVE DigitsOf(_)
DigitsOf(n) ==
    IF n < 10 THEN <<Digit(n)>> ELSE DigitsOf(n \div 10) \o <<Digit(n % 10)>>

\* String(v)
String(v) ==
    CASE v.t = "num" -> IF v.n < 0 THEN <<"-">> \o DigitsOf(0 - v.n) ELSE DigitsOf(v.n)
      [] v.t = "str" -> v.s
      [] v.t = "null" -> <<"n", "u", "l", "l">>
      [] OTHER -> <<"u", "n", "d", "e", "f", "i", "n", "e", "d">>

(***************************************************************************)
(* Comparison engine (DataComparator).                                     *)
(***************************************************************************)
File1(k) == "(File 1) " \o k
File2(k) == "(File 2) " \o k

\* data1.columns.filter(col => data2.columns.includes(col))
CommonColumns(cols1, cols2) == SelectSeq(cols1, LAMBDA col : Includes(cols2, col))

commonColumns == CommonColumns(columns, columns2)

\* the first column of dataset 1 as the initial join key, shared or not
InitialJoinKeyFirstColumn(cols1, cols2) == cols1[1]

\* useState(commonColumns.length > 0 ? commonColumns[0] : '')
InitialJoinKey(cols1, cols2) ==
    IF Len(CommonColumns(cols1, cols2)) > 0 THEN CommonColumns(cols1, cols2)[1] ELSE ""

\* map2 after data2.data.forEach(row => map2.set(String(row[joinKey]), row))
RECURSIVE IndexByKeyUnconverted(_, _)
IndexByKeyUnconverted(rows, key) ==
    IF rows = <<>> THEN <<>>
    ELSE LET row == Last(rows)
             map2 == IndexByKeyUnconverted(Front(rows), key)
             keyVal == IF Get(row, key).t = "str" THEN String(Get(row, key))
                       ELSE <<"#">> \o String(Get(row, key))
         IN (keyVal :> row) @@ map2

RECURSIVE IndexByKey(_, _)
IndexByKey(rows, key) ==
    IF rows = <<>> THEN <<>>
    ELSE LET row == Last(rows)
             map2 == IndexByKey(Front(rows), key)
         IN (String(Get(row, key)) :> row) @@ map2

\* mergedRow: { [joinKey]: row1[joinKey] }, then the File 1 keys, then the File 2 keys
MergedRowBroken(row1, row2, key) ==
    LET f1 == [n \in {File1(k) : k \in DOMAIN row1 \ {key}} |->
                  row1[CHOOSE k \in DOMAIN row1 \ {key} : File1(k) = n]]
        f2 == [n \in {File2(k) : k \in DOMAIN row2} |->
                  row2[CHOOSE k \in DOMAIN row2 : File2(k) = n]]
    IN f2 @@ f1 @@ (key :> Get(row2, key))

MergedRow(row1, row2, key) ==
    LET f1 == [n \in {File1(k) : k \in DOMAIN row1 \ {key}} |->
                  row1[CHOOSE k \in DOMAIN row1 \ {key} : File1(k) = n]]
        f2 == [n \in {File2(k) : k \in DOMAIN row2 \ {key}} |->
                  row2[CHOOSE k \in DOMAIN row2 \ {key} : File2(k) = n]]
    IN f2 @@ f1 @@ (key :> Get(row1, key))

\* One probe of the index for a dataset-1 row.
ProbeFirstWins(acc, row1, rows2, key) ==
    LET keyVal == String(Get(row1, key))
        hits == {j \in 1..Len(rows2) : String(Get(rows2[j], key)) = keyVal}
        first == CHOOSE j \in hits : \A h \in hits : j <= h
    IN IF hits # {}
       THEN [matches |-> Append(acc.matches, MergedRow(row1, rows2[first], key)),
             unique1 |-> acc.unique1,
             matchedKeys |-> acc.matchedKeys \cup {keyVal}]
       ELSE [acc EXCEPT !.unique1 = Append(@, row1)]

ProbeDropsMiss(acc, row1, rows2, key) ==
    LET map2 == IndexByKey(rows2, key)
        keyVal == String(Get(row1, key))
    IN IF keyVal \in DOMAIN map2
       THEN [matches |-> Append(acc.matches, MergedRow(row1, map2[keyVal], key)),
             unique1 |-> acc.unique1,
             matchedKeys |-> acc.matchedKeys \cup {keyVal}]
       ELSE IF Len(acc.unique1) > 0 THEN acc
            ELSE [acc EXCEPT !.unique1 = Append(@, row1)]

Probe(acc, row1, rows2, key) ==
    LET map2 == IndexByKey(rows2, key)
        keyVal == String(Get(row1, key))
    IN IF keyVal \in DOMAIN map2
       THEN [matches |-> Append(acc.matches, MergedRow(row1, map2[keyVal], key)),
             unique1 |-> acc.unique1,
             matchedKeys |-> acc.matchedKeys \cup {keyVal}]
       ELSE [acc EXCEPT !.unique1 = Append(@, row1)]

\* data1.data.forEach(row1 => ...)
RECURSIVE JoinLoop(_, _, _)
JoinLoop(rows1, rows2, key) ==
    IF rows1 = <<>> THEN [matches |-> <<>>, unique1 |-> <<>>, matchedKeys |-> {}]
    ELSE LET acc == JoinLoop(Front(rows1), rows2, key)
             row1 == Last(rows1)
         IN Probe(acc, row1, rows2, key)

\* data2.data.filter(row => !matchedKeys.has(String(row[joinKey])))
Unique2KeepsAll(rows2, matchedKeys, key) ==
    rows2

Unique2(rows2, matchedKeys, key) ==
    SelectSeq(rows2, LAMBDA row : String(Get(row, key)) \notin matchedKeys)

\* the comparisonResult memo
Compare(rows1, rows2, key) ==
    IF key = "" THEN [matches |-> <<>>, unique1 |-> <<>>, unique2 |-> <<>>]
    ELSE LET acc == JoinLoop(rows1, rows2, key)
         IN [matches |-> acc.matches,
             unique1 |-> acc.unique1,
             unique2 |-> Unique2(rows2, acc.matchedKeys, key)]

comparisonResult == Compare(data, data2, joinKey)

\* Step 1 of matchViewColumns: the join key, then dataset 1's columns
RECURSIVE File1Pass(_, _, _)
File1Pass(cols1, cols2, key) ==
    IF cols1 = <<>> THEN <<key>>
    ELSE LET cols == File1Pass(Front(cols1), cols2, key)
             col == Last(cols1)
         IN IF col = key THEN cols
            ELSE cols \o <<File1(col)>>
                      \o (IF Includes(cols2, col) THEN <<File2(col)>> ELSE <<>>)

\* Step 2 of matchViewColumns: dataset 2's columns that step 1 did not process
File2Pass(cols1, cols2, key) ==
    LET processedBaseCols == {key} \cup Range(cols1)
        rest == SelectSeq(cols2, LAMBDA col : col \notin processedBaseCols)
    IN [i \in 1..Len(rest) |-> File2(rest[i])]

MatchViewColumns(cols1, cols2, key) ==
    IF key = "" THEN <<>>
    ELSE File1Pass(cols1, cols2, key) \o File2Pass(cols1, cols2, key)

matchViewColumns == MatchViewColumns(columns, columns2, joinKey)

currentColumns ==
    IF viewMode = "matches" THEN matchViewColumns
    ELSE IF viewMode = "unique1" THEN columns
    ELSE columns2

\* Array.from(new Set([...data1.columns, ...data2.columns]))
RECURSIVE Dedupe(_)
Dedupe(s) ==
    IF s = <<>> THEN <<>>
    ELSE LET d == Dedupe(Front(s))
         IN IF Includes(d, Last(s)) THEN d ELSE Append(d, Last(s))

AllOriginalColumns(cols1, cols2) == Dedupe(cols1 \o cols2)

Missing == [t |-> "missing", n |-> 0, s |-> <<>>]

\* One entry of selectedRowComparison (the callback of allOriginalColumns.map)
FieldDiffSwapped(row, col, key) ==
    LET val1 == Get(row, File1(col))
        val2 == Get(row, File2(col))
        hasVal1 == val1 # Undefined
        hasVal2 == val2 # Undefined
        bothNumbers == val1.t = "num" /\ val2.t = "num"
        isMatch == IF hasVal1 /\ hasVal2
                   THEN IF bothNumbers THEN val1.n = val2.n
                        ELSE String(val1) = String(val2)
                   ELSE ~hasVal1 /\ ~hasVal2
    IN IF col = key
       THEN [col |-> col, val1 |-> Get(row, key), val2 |-> Get(row, key),
             isMatch |-> TRUE, diff |-> Null]
       ELSE [col |-> col,
             val1 |-> IF hasVal1 THEN val1 ELSE Missing,
             val2 |-> IF hasVal2 THEN val2 ELSE Missing,
             isMatch |-> isMatch,
             diff |-> IF hasVal1 /\ hasVal2 /\ bothNumbers /\ ~isMatch
                      THEN Num(val1.n - val2.n) ELSE Null]

FieldDiff(row, col, key) ==
    LET val1 == Get(row, File1(col))
        val2 == Get(row, File2(col))
        hasVal1 == val1 # Undefined
        hasVal2 == val2 # Undefined
        bothNumbers == val1.t = "num" /\ val2.t = "num"
        isMatch == IF hasVal1 /\ hasVal2
                   THEN IF bothNumbers THEN val1.n = val2.n
                        ELSE String(val1) = String(val2)
                   ELSE ~hasVal1 /\ ~hasVal2
    IN IF col = key
       THEN [col |-> col, val1 |-> Get(row, key), val2 |-> Get(row, key),
             isMatch |-> TRUE, diff |-> Null]
       ELSE [col |-> col,
             val1 |-> IF hasVal1 THEN val1 ELSE Missing,
             val2 |-> IF hasVal2 THEN val2 ELSE Missing,
             isMatch |-> isMatch,
             diff |-> IF hasVal1 /\ hasVal2 /\ bothNumbers /\ ~isMatch
                      THEN Num(val2.n - val1.n) ELSE Null]

\* allOriginalColumns.map(...) without the sort
RowComparisonUnsorted(row, cols1, cols2, key) ==
    LET all == AllOriginalColumns(cols1, cols2)
    IN [i \in 1..Len(all) |-> FieldDiff(row, all[i], key)]

\* allOriginalColumns.map(...).sort(mismatches first); Array.prototype.sort is stable
RowComparison(row, cols1, cols2, key) ==
    LET all == AllOriginalColumns(cols1, cols2)
        recs == [i \in 1..Len(all) |-> FieldDiff(row, all[i], key)]
    IN SelectSeq(recs, LAMBDA r : ~r.isMatch) \o SelectSeq(recs, LAMBDA r : r.isMatch)

\* the selectedRowComparison memo: <<>> is null
selectedRowComparison ==
    IF selectedRow = <<>> \/ viewMode # "matches" THEN <<>>
    ELSE <<RowComparison(selectedRow[1], columns, columns2, joinKey)>>

(***************************************************************************)
(* Ingestion (FileUpload.parseCsvText): what a loaded Dataset looks like.  *)
(***************************************************************************)
\* key.toLowerCase() on the header names the model draws from
ToLowerCaseName(name) ==
    CASE name = "X" -> "x"
      [] name = "Z" -> "z"
      [] OTHER -> name

\* (data.columns || []).map(col => col.toLowerCase()): nothing is de-duplicated
IngestColumns(header) == [i \in 1..Len(header) |-> ToLowerCaseName(header[i])]

\* A parsed row keeps one entry per lower-cased header name.
RowOn(cols, full) == [c \in Range(cols) |-> full[c]]

SeqsOf(S, lo, hi) == UNION {[1..k -> S] : k \in lo..hi}

(***************************************************************************)
(* Datasets the comparison is exercised on.  Each layout is a pair of CSV  *)
(* headers; the rows are the pool rows cut down to the header's columns.   *)
(***************************************************************************)
Headers ==
    { [h1 |-> <<"id", "x">>,      h2 |-> <<"id", "x">>],
      [h1 |-> <<"x", "id", "y">>, h2 |-> <<"z", "id", "x">>],
      [h1 |-> <<"id", "X", "x">>, h2 |-> <<"z", "id", "Z">>],
      [h1 |-> <<"y">>,            h2 |-> <<"z">>] }

Pool1 ==
    { [id |-> Num(7), x |-> Num(1),        y |-> Str(<<"a">>)],
      [id |-> Num(7), x |-> Str(<<"1">>),  y |-> Str(<<"a">>)],
      [id |-> Num(1), x |-> Str(<<"a">>),  y |-> Str(<<"a">>)],
      [id |-> Num(3), x |-> Num(1),        y |-> Str(<<"a">>)] }

Pool2 ==
    { [id |-> Str(<<"7">>), x |-> Num(1),       z |-> Num(1)],
      [id |-> Num(7),       x |-> Num(3),       z |-> Num(1)],
      [id |-> Num(1),       x |-> Str(<<"b">>), z |-> Num(1)] }

\* A row that lacks a key its Dataset lists (CsvRow is an open mapping).
PartialRows(cols) ==
    IF "y" \in Range(cols) /\ "id" \in Range(cols)
    THEN {[c \in Range(cols) \ {"y"} |-> Pool1Row[c]] :
             Pool1Row \in {r \in Pool1 : r.id = Num(7) /\ r.x = Num(1)}}
    ELSE {}

Rows1(cols) == {RowOn(cols, full) : full \in Pool1} \cup PartialRows(cols)
Rows2(cols) == {RowOn(cols, full) : full \in Pool2}

TableInit ==
    /\ searchTerm = <<>>
    /\ sortConfig = <<>>
    /\ selectionStart = <<>>
    /\ selectionEnd = <<>>
    /\ isSelecting = FALSE
    /\ editingCell = <<>>
    /\ editValue = <<>>

\* Two parsed files handed to DataComparator (handleStartComparison).
InitCompare ==
    /\ \E h \in Headers :
          /\ columns = IngestColumns(h.h1)
          /\ columns2 = IngestColumns(h.h2)
    /\ data \in SeqsOf(Rows1(columns), 1, MaxRows)
    /\ data2 \in SeqsOf(Rows2(columns2), 1, MaxRows)
    /\ rowCount = Len(data)
    /\ joinKey = InitialJoinKey(columns, columns2)
    /\ viewMode = "matches"
    /\ selectedRow = <<>>
    /\ inspected = <<>>
    /\ TableInit

\* <select value={joinKey} onChange={e => setJoinKey(e.target.value)}>
SetJoinKey(k) ==
    /\ Len(commonColumns) > 0
    /\ k \in Range(commonColumns)
    /\ k # joinKey
    /\ joinKey' = k
    /\ UNCHANGED <<dataVars, tableVars, data2, columns2, viewMode, selectedRow, inspected>>

\* onClick={() => setViewMode(m)}
SetViewMode(m) ==
    /\ Len(commonColumns) > 0
    /\ viewMode' = m
    /\ UNCHANGED <<dataVars, tableVars, data2, columns2, joinKey, selectedRow, inspected>>

\* The per-row diff evaluated on the i-th merged row of the current result.
InspectRow(i) ==
    /\ Len(commonColumns) > 0
    /\ viewMode = "matches"
    /\ i \in 1..Len(comparisonResult.matches)
    /\ inspected' = <<[row |-> comparisonResult.matches[i],
                       key |-> joinKey,
                       out |-> RowComparison(comparisonResult.matches[i],
                                             columns, columns2, joinKey)]>>
    /\ UNCHANGED <<dataVars, tableVars, data2, columns2, joinKey, viewMode, selectedRow>>

NextCompare ==
    \/ \E k \in Range(columns) : SetJoinKey(k)
    \/ \E m \in {"matches", "unique1", "unique2"} : SetViewMode(m)
    \/ \E i \in 1..MaxRows : InspectRow(i)

SpecCompare == InitCompare /\ [][NextCompare]_vars

(***************************************************************************)
(* View engine (DataTable) and the App's row lifecycle handlers.           *)
(***************************************************************************)
\* String.prototype.toLowerCase on the letters the model uses
LowerChar(c) ==
    CASE c = "A" -> "a"
      [] c = "B" -> "b"
      [] c = "Α" -> "α"
      [] c = "Σ" -> "σ"
      [] OTHER -> c

\* the letters with a case, and the characters a case context skips
Cased(c) == c \in {"A", "B", "a", "b", "x", "Α", "Σ", "α", "σ", "ς"}
CaseIgnorable(c) == c = "."

\* the Final_Sigma condition of the Unicode special casing, which
\* toLowerCase applies: a cased letter before, none after
FinalSigma(text, i) ==
    /\ \E j \in 1..(i - 1) :
          Cased(text[j]) /\ \A k \in (j + 1)..(i - 1) : CaseIgnorable(text[k])
    /\ ~\E j \in (i + 1)..Len(text) :
          Cased(text[j]) /\ \A k \in (i + 1)..(j - 1) : CaseIgnorable(text[k])

ToLowerCase(text) ==
    [i \in 1..Len(text) |->
        IF text[i] = "Σ" /\ FinalSigma(text, i) THEN "ς" ELSE LowerChar(text[i])]

\* String.prototype.includes
StrIncludes(text, term) ==
    \E i \in 1..(Len(text) - Len(term) + 1) : SubSeq(text, i, i + Len(term) - 1) = term

\* UTF-16 code unit of the characters the model uses
CharCode(c) ==
    CASE c = " " -> 32
      [] c = "-" -> 45
      [] c = "." -> 46
      [] c \in {"0", "1", "2", "3", "4", "5", "6", "7", "8", "9"} ->
            48 + (CHOOSE d \in 0..9 : Digit(d) = c)
      [] c = "A" -> 65
      [] c = "B" -> 66
      [] c = "a" -> 97
      [] c = "b" -> 98
      [] c = "x" -> 120
      [] c = "Α" -> 913
      [] c = "Σ" -> 931
      [] c = "α" -> 945
      [] c = "ς" -> 962
      [] c = "σ" -> 963
      [] OTHER -> 122

\* strA < strB on strings
RECURSIVE StrLess(_, _)
StrLess(a, b) ==
    IF b = <<>> THEN FALSE
    ELSE IF a = <<>> THEN TRUE
    ELSE IF CharCode(Head(a)) # CharCode(Head(b)) THEN CharCode(Head(a)) < CharCode(Head(b))
    ELSE StrLess(Tail(a), Tail(b))

\* data.map((row, idx) => ({ ...row, _originalIndex: idx }))
IndexedDataOneBased(rows) ==
    [i \in 1..Len(rows) |-> ("_originalIndex" :> Num(i)) @@ rows[i]]

IndexedData(rows) ==
    [i \in 1..Len(rows) |-> ("_originalIndex" :> Num(i - 1)) @@ rows[i]]

OriginalIndex(row) == row["_originalIndex"].n

\* the filteredData memo
FilteredDataCaseSensitive(rows, cols, term) ==
    IF term = <<>> THEN IndexedData(rows)
    ELSE SelectSeq(IndexedData(rows), LAMBDA row :
            \E c \in 1..Len(cols) : StrIncludes(String(Get(row, cols[c])), ToLowerCase(term)))

FilteredData(rows, cols, term) ==
    IF term = <<>> THEN IndexedData(rows)
    ELSE SelectSeq(IndexedData(rows), LAMBDA row :
            \E c \in 1..Len(cols) :
                StrIncludes(ToLowerCase(String(Get(row, cols[c]))), ToLowerCase(term)))

\* the comparator handed to sort(); cfg is a [key, direction] record
ComparatorTextUnflipped(a, b, cfg) ==
    LET aValue == Get(a, cfg.key)
        bValue == Get(b, cfg.key)
        strA == ToLowerCase(String(aValue))
        strB == ToLowerCase(String(bValue))
    IN IF aValue = Null \/ aValue = Undefined THEN 1
       ELSE IF bValue = Null \/ bValue = Undefined THEN -1
       ELSE IF aValue.t = "num" /\ bValue.t = "num"
            THEN IF cfg.direction = "asc" THEN aValue.n - bValue.n ELSE bValue.n - aValue.n
       ELSE IF StrLess(strA, strB) THEN -1
       ELSE IF StrLess(strB, strA) THEN 1
       ELSE 0

Comparator(a, b, cfg) ==
    LET aValue == Get(a, cfg.key)
        bValue == Get(b, cfg.key)
        strA == ToLowerCase(String(aValue))
        strB == ToLowerCase(String(bValue))
    IN IF aValue = Null \/ aValue = Undefined THEN 1
       ELSE IF bValue = Null \/ bValue = Undefined THEN -1
       ELSE IF aValue.t = "num" /\ bValue.t = "num"
            THEN IF cfg.direction = "asc" THEN aValue.n - bValue.n ELSE bValue.n - aValue.n
       ELSE IF StrLess(strA, strB) THEN (IF cfg.direction = "asc" THEN -1 ELSE 1)
       ELSE IF StrLess(strB, strA) THEN (IF cfg.direction = "asc" THEN 1 ELSE -1)
       ELSE 0

\* Array.prototype.sort requires a consistent comparator; otherwise the order
\* it leaves is implementation-defined.
ConsistentOn(rows, cfg) ==
    LET S == 1..Len(rows)
    IN \A result \in {[a \in S, b \in S |-> Comparator(rows[a], rows[b], cfg)]} :
          /\ \A a \in S : result[a, a] = 0
          /\ \A a, b \in S :
                /\ result[a, b] = 0 => result[b, a] = 0
                /\ result[a, b] < 0 => result[b, a] > 0
          /\ \A a, b, c \in S :
                /\ (result[a, b] = 0 /\ result[b, c] = 0) => result[a, c] = 0
                /\ (result[a, b] < 0 /\ result[b, c] < 0) => result[a, c] < 0
                /\ (result[a, b] < 0 /\ result[b, c] = 0) => result[a, c] < 0
                /\ (result[a, b] = 0 /\ result[b, c] < 0) => result[a, c] < 0

\* the stable order of a consistent comparator, by insertion
RECURSIVE StableSort(_, _)
StableSort(rows, cfg) ==
    IF rows = <<>> THEN <<>>
    ELSE LET sorted == StableSort(Front(rows), cfg)
             x == Last(rows)
             after == {i \in 1..Len(sorted) : Comparator(sorted[i], x, cfg) > 0}
             at == IF after = {} THEN Len(sorted) + 1
                   ELSE CHOOSE i \in after : \A j \in after : i <= j
         IN SubSeq(sorted, 1, at - 1) \o <<x>> \o SubSeq(sorted, at, Len(sorted))

Reorderings(rows) ==
    {[i \in 1..Len(rows) |-> rows[p[i]]] :
        p \in {q \in [1..Len(rows) -> 1..Len(rows)] :
                 \A i, j \in 1..Len(rows) : i # j => q[i] # q[j]}}

\* what [...filteredData].sort(comparator) can leave; cfg is <<>> or <<record>>
SortOutcomes(filtered, cfg) ==
    IF cfg = <<>> THEN {filtered}
    ELSE UNION {IF ConsistentOn(copy, cfg[1]) THEN {StableSort(copy, cfg[1])}
                ELSE Reorderings(copy) : copy \in {filtered}}

filteredData == FilteredData(data, columns, searchTerm)

\* the values the sortedData memo can hold
sortedDataOutcomes == SortOutcomes(filteredData, sortConfig)

\* the rows the table body renders (in some order)
VisibleRows == Range(filteredData)

\* String.prototype.trim on the model's characters
RECURSIVE TrimStart(_)
TrimStart(text) ==
    IF text # <<>> /\ Head(text) = " " THEN TrimStart(Tail(text)) ELSE text

RECURSIVE TrimEnd(_)
TrimEnd(text) ==
    IF text # <<>> /\ Last(text) = " " THEN TrimEnd(Front(text)) ELSE text

Trim(text) == TrimEnd(TrimStart(text))

IsDigit(c) == c \in {"0", "1", "2", "3", "4", "5", "6", "7", "8", "9"}
AllDigits(text) == \A i \in 1..Len(text) : IsDigit(text[i])

RECURSIVE DigitsValue(_)
DigitsValue(text) ==
    IF text = <<>> THEN 0
    ELSE 10 * DigitsValue(Front(text)) + (CHOOSE d \in 0..9 : Digit(d) = Last(text))

\* Number(text) for decimal literals without exponent whose fraction digits
\* are all zero (the staged texts of this model); NaN is [nan |-> TRUE].
Number(text) ==
    LET t == Trim(text)
        signed == t # <<>> /\ Head(t) \in {"-", "+"}
        body == IF signed THEN Tail(t) ELSE t
        dots == {i \in 1..Len(body) : body[i] = "."}
        dot == IF dots = {} THEN Len(body) + 1 ELSE CHOOSE i \in dots : \A j \in dots : i <= j
        int == SubSeq(body, 1, dot - 1)
        frac == SubSeq(body, dot + 1, Len(body))
        wellFormed == /\ AllDigits(int) /\ AllDigits(frac)
                      /\ Len(int) + Len(frac) > 0
        value == DigitsValue(int)
    IN IF t = <<>> THEN [nan |-> FALSE, n |-> 0]
       ELSE IF ~wellFormed THEN [nan |-> TRUE, n |-> 0]
       ELSE [nan |-> FALSE, n |-> IF signed /\ Head(t) = "-" THEN 0 - value ELSE value]

EndsWith(text, c) == text # <<>> /\ Last(text) = c

\* finalValue of saveEditing
FinalValueRoundTrip(staged) ==
    IF Trim(staged) = <<>> THEN Str(<<>>)
    ELSE LET numVal == Number(staged)
         IN IF ~numVal.nan /\ String(Num(numVal.n)) = staged
            THEN Num(numVal.n)
            ELSE Str(staged)

FinalValue(staged) ==
    IF Trim(staged) = <<>> THEN Str(<<>>)
    ELSE LET numVal == Number(staged)
         IN IF ~numVal.nan /\ ~EndsWith(staged, ".") /\ Trim(staged) # <<>>
            THEN Num(numVal.n)
            ELSE Str(staged)

\* newData of saveEditing: a copy of data with one cell replaced
CommitWholeRow(rows, cell, staged) ==
    [rows EXCEPT ![cell.rowIndex + 1] = [c \in DOMAIN @ |-> FinalValue(staged)]]

CommitCell(rows, cell, staged) ==
    [rows EXCEPT ![cell.rowIndex + 1] = (cell.col :> FinalValue(staged)) @@ @]

\* newData of handleDeleteRow
RemoveAt(rows, originalIndex) ==
    IF originalIndex >= 0 /\ originalIndex < Len(rows)
    THEN SubSeq(rows, 1, originalIndex) \o SubSeq(rows, originalIndex + 2, Len(rows))
    ELSE rows

\* The staged texts a user types and the search terms a user enters.
EditTexts == {<<"2">>, <<"b">>}
SearchTerms == {<<>>, <<"A">>}

TablePool ==
    { [name |-> Str(<<"b">>),      n |-> Num(2)],
      [name |-> Str(<<"A", "b">>), n |-> Num(2)] }

\* One parsed file shown in the editable table (handleDataLoaded).
Init ==
    /\ columns = IngestColumns(<<"name", "n">>)
    /\ data \in SeqsOf({RowOn(columns, full) : full \in TablePool}, 1, MaxRows)
    /\ rowCount = Len(data)
    /\ data2 = <<>>
    /\ columns2 = <<>>
    /\ joinKey = ""
    /\ viewMode = "matches"
    /\ selectedRow = <<>>
    /\ inspected = <<>>
    /\ TableInit

\* onChange={e => setSearchTerm(e.target.value)}
SetSearchTerm(term) ==
    /\ term # searchTerm
    /\ searchTerm' = term
    /\ UNCHANGED <<dataVars, compareVars, sortConfig, selectionStart, selectionEnd,
                   isSelecting, editingCell, editValue>>

\* a sort control with a third click that removes the sort
ClickSortThreeState(col) ==
    /\ sortConfig' = IF sortConfig = <<[key |-> col, direction |-> "desc"]>> THEN <<>>
                     ELSE <<[key |-> col,
                             direction |-> IF sortConfig # <<>> /\ sortConfig[1].key = col
                                           THEN "desc" ELSE "asc"]>>
    /\ UNCHANGED <<dataVars, compareVars, searchTerm, selectionStart, selectionEnd,
                   isSelecting, editingCell, editValue>>

\* the header's sort control
ClickSort(col) ==
    /\ sortConfig' = <<[key |-> col,
                        direction |-> IF sortConfig # <<>> /\ sortConfig[1].key = col
                                         /\ sortConfig[1].direction = "asc"
                                      THEN "desc" ELSE "asc"]>>
    /\ UNCHANGED <<dataVars, compareVars, searchTerm, selectionStart, selectionEnd,
                   isSelecting, editingCell, editValue>>

\* onDoubleClick={() => startEditing(row, col)} on a rendered cell
StartEditing(row, col) ==
    /\ row \in VisibleRows
    /\ editingCell' = <<[rowIndex |-> OriginalIndex(row), col |-> col]>>
    /\ editValue' = IF Get(row, col) = Null THEN <<>> ELSE String(Get(row, col))
    /\ selectionStart' = <<>>
    /\ selectionEnd' = <<>>
    /\ UNCHANGED <<dataVars, compareVars, searchTerm, sortConfig, isSelecting>>

\* The edit input exists only in a rendered row whose _originalIndex is
\* editingCell.rowIndex; blur, Enter, Escape and typing all need it.
InputRendered ==
    /\ editingCell # <<>>
    /\ \E row \in VisibleRows : OriginalIndex(row) = editingCell[1].rowIndex
    /\ Includes(columns, editingCell[1].col)

\* onChange={e => setEditValue(e.target.value)}
SetEditValue(staged) ==
    /\ InputRendered
    /\ staged # editValue
    /\ editValue' = staged
    /\ UNCHANGED <<dataVars, compareVars, searchTerm, sortConfig, selectionStart,
                   selectionEnd, isSelecting, editingCell>>

\* Escape
CancelEditing ==
    /\ InputRendered
    /\ editingCell' = <<>>
    /\ editValue' = <<>>
    /\ UNCHANGED <<dataVars, compareVars, searchTerm, sortConfig, selectionStart,
                   selectionEnd, isSelecting>>

\* blur or Enter: saveEditing, then handleDataUpdate in the App
SaveEditing ==
    /\ InputRendered
    /\ data' = CommitCell(data, editingCell[1], editValue)
    /\ editingCell' = <<>>
    /\ UNCHANGED <<columns, rowCount, compareVars, searchTerm, sortConfig,
                   selectionStart, selectionEnd, isSelecting, editValue>>

\* handleAddRow without the update of meta.rowCount
AddRowKeepsCount ==
    /\ Len(data) < MaxRows
    /\ data' = Append(data, [c \in Range(columns) |-> Str(<<>>)])
    /\ UNCHANGED <<columns, rowCount, compareVars, tableVars>>

\* handleAddRow
AddRow ==
    /\ Len(data) < MaxRows
    /\ data' = Append(data, [c \in Range(columns) |-> Str(<<>>)])
    /\ rowCount' = Len(data')
    /\ UNCHANGED <<columns, compareVars, tableVars>>

\* handleDeleteRow: an index outside the Dataset changes nothing
HandleDeleteRow(originalIndex) ==
    /\ originalIndex >= 0 /\ originalIndex < Len(data)
    /\ data' = RemoveAt(data, originalIndex)
    /\ rowCount' = Len(data')
    /\ UNCHANGED <<columns, compareVars, tableVars>>

\* the row's delete button: onRowDelete(row._originalIndex)
DeleteRow(row) ==
    /\ row \in VisibleRows
    /\ HandleDeleteRow(OriginalIndex(row))

Next ==
    \/ \E term \in SearchTerms : SetSearchTerm(term)
    \/ \E col \in Range(columns) : ClickSort(col)
    \/ \E row \in VisibleRows, col \in Range(columns) : StartEditing(row, col)
    \/ \E staged \in EditTexts : SetEditValue(staged)
    \/ CancelEditing
    \/ SaveEditing
    \/ AddRow
    \/ \E row \in VisibleRows : DeleteRow(row)

\* The editable table of the App.  The pointer handlers of the selection
\* write selectionStart, selectionEnd and isSelecting only and no handler
\* above reads them, so they are left out of this specification.
Spec == Init /\ [][Next]_vars

(***************************************************************************)
(* Typing into the edit input of one cell and committing it.               *)
(***************************************************************************)
MaxLen == 4         \* longest staged text typed into the edit input

Alphabet == {"0", "1", "2", ".", " ", "b"}

\* Cell values are integers here: a staged numeral has only zeros after its
\* decimal point.
ZeroFraction(text) ==
    \A i, j \in 1..Len(text) :
        (i < j /\ text[i] = "." /\ IsDigit(text[j])) => text[j] = "0"

\* e.target.value after one keystroke (a character typed or the last removed)
Typed(text) ==
    {t \in {Append(text, c) : c \in Alphabet} : Len(t) <= MaxLen /\ ZeroFraction(t)}
        \cup (IF text = <<>> THEN {} ELSE {Front(text)})

\* The table right after startEditing on the n cell of a one-row Dataset.
InitEdit ==
    /\ columns = IngestColumns(<<"name", "n">>)
    /\ data \in SeqsOf({RowOn(columns, full) : full \in TablePool}, 1, 1)
    /\ rowCount = Len(data)
    /\ data2 = <<>>
    /\ columns2 = <<>>
    /\ joinKey = ""
    /\ viewMode = "matches"
    /\ selectedRow = <<>>
    /\ inspected = <<>>
    /\ searchTerm = <<>>
    /\ sortConfig = <<>>
    /\ selectionStart = <<>>
    /\ selectionEnd = <<>>
    /\ isSelecting = FALSE
    /\ editingCell = <<[rowIndex |-> 0, col |-> "n"]>>
    /\ editValue = String(data[1]["n"])

NextEdit ==
    \/ \E staged \in Typed(editValue) : SetEditValue(staged)
    \/ SaveEditing

SpecEdit == InitEdit /\ [][NextEdit]_vars

(***************************************************************************)
(* Sorting one column that holds numbers, texts, null and absent values.   *)
(***************************************************************************)
MaxSortRows == 3    \* rows of the Dataset the sort is exercised on

\* Values of the sorted column n; the last row has no n at all.
SortPool ==
    { ("n" :> Num(2)), ("n" :> Num(10)),
      ("n" :> Str(<<"1", "a">>)), ("n" :> Str(<<"b">>)), ("n" :> Str(<<"B">>)),
      ("n" :> Null), ("name" :> Str(<<"b">>)) }

InitSort ==
    /\ columns = IngestColumns(<<"n">>)
    /\ data \in SeqsOf(SortPool, 1, MaxSortRows)
    /\ rowCount = Len(data)
    /\ data2 = <<>>
    /\ columns2 = <<>>
    /\ joinKey = ""
    /\ viewMode = "matches"
    /\ selectedRow = <<>>
    /\ inspected = <<>>
    /\ TableInit

NextSort == \E col \in Range(columns) : ClickSort(col)

SpecSort == InitSort /\ [][NextSort]_vars

(***************************************************************************)
(* Cell selection and the statistics of the selected cells (DataTable).    *)
(***************************************************************************)
Point(r, c) == [rowIndex |-> r, colIndex |-> c]

\* handleCellMouseDown without the shift branch
CellMouseDownIgnoringShift(rowIndex, colIndex, shiftKey) ==
    /\ editingCell = <<>>
    /\ IF colIndex = -1
       THEN /\ selectionStart' = <<Point(rowIndex, 0)>>
            /\ selectionEnd' = <<Point(rowIndex, Len(columns) - 1)>>
            /\ isSelecting' = TRUE
       ELSE /\ selectionStart' = <<Point(rowIndex, colIndex)>>
            /\ selectionEnd' = <<Point(rowIndex, colIndex)>>
            /\ isSelecting' = TRUE
    /\ UNCHANGED <<dataVars, compareVars, searchTerm, sortConfig, editingCell, editValue>>

\* handleCellMouseDown on a body cell (colIndex >= 0) or on the index
\* column (colIndex = -1)
CellMouseDown(rowIndex, colIndex, shiftKey) ==
    /\ editingCell = <<>>
    /\ IF colIndex = -1
       THEN /\ selectionStart' = <<Point(rowIndex, 0)>>
            /\ selectionEnd' = <<Point(rowIndex, Len(columns) - 1)>>
            /\ isSelecting' = TRUE
       ELSE IF shiftKey /\ selectionStart # <<>>
       THEN /\ selectionEnd' = <<Point(rowIndex, colIndex)>>
            /\ UNCHANGED <<selectionStart, isSelecting>>
       ELSE /\ selectionStart' = <<Point(rowIndex, colIndex)>>
            /\ selectionEnd' = <<Point(rowIndex, colIndex)>>
            /\ isSelecting' = TRUE
    /\ UNCHANGED <<dataVars, compareVars, searchTerm, sortConfig, editingCell, editValue>>

\* handleCellMouseEnter
CellMouseEnter(rowIndex, colIndex) ==
    /\ isSelecting
    /\ selectionEnd' = <<Point(rowIndex, colIndex)>>
    /\ UNCHANGED <<dataVars, compareVars, searchTerm, sortConfig, selectionStart,
                   isSelecting, editingCell, editValue>>

\* handleMouseUp (the window's mouseup listener)
MouseUp ==
    /\ isSelecting' = FALSE
    /\ UNCHANGED <<dataVars, compareVars, searchTerm, sortConfig, selectionStart,
                   selectionEnd, editingCell, editValue>>

\* handleSelectWholeColumn; sortedData.length is the number of visible rows
SelectWholeColumn(colIndex) ==
    /\ selectionStart' = <<Point(0, colIndex)>>
    /\ selectionEnd' = <<Point(Len(filteredData) - 1, colIndex)>>
    /\ UNCHANGED <<dataVars, compareVars, searchTerm, sortConfig, isSelecting,
                   editingCell, editValue>>

Min(a, b) == IF a < b THEN a ELSE b
Max(a, b) == IF a > b THEN a ELSE b

\* parseFloat(text) for texts whose numeric prefix has no fraction digits
\* other than zeros; NaN is [nan |-> TRUE]
ParseFloat(text) ==
    LET t == TrimStart(text)
        signed == t # <<>> /\ Head(t) \in {"-", "+"}
        body == IF signed THEN Tail(t) ELSE t
        width == Cardinality({i \in 1..Len(body) : \A j \in 1..i : IsDigit(body[j])})
        value == DigitsValue(SubSeq(body, 1, width))
    IN IF width = 0 THEN [nan |-> TRUE, n |-> 0]
       ELSE [nan |-> FALSE, n |-> IF signed /\ Head(t) = "-" THEN 0 - value ELSE value]

\* typeof val === 'number' ? val : parseFloat(String(val))
Coerce(val) ==
    IF val.t = "num" THEN [nan |-> FALSE, n |-> val.n] ELSE ParseFloat(String(val))

\* the loops of stats: cellCount and values, row by row, column by column
RECURSIVE StatsScan(_, _, _, _, _, _)
StatsScan(visible, cols, r, maxRow, minCol, maxCol) ==
    IF r > maxRow THEN [cellCount |-> 0, values |-> <<>>]
    ELSE LET rest == StatsScan(visible, cols, r + 1, maxRow, minCol, maxCol)
         IN IF r < 0 \/ r >= Len(visible) THEN rest
            ELSE LET cells == [c \in 1..(maxCol - minCol + 1) |->
                                  Coerce(Get(visible[r + 1], cols[minCol + c]))]
                     nums == SelectSeq(cells, LAMBDA x : ~x.nan)
                 IN [cellCount |-> Len(cells) + rest.cellCount,
                     values |-> [i \in 1..Len(nums) |-> nums[i].n] \o rest.values]

RECURSIVE SumOf(_)
SumOf(values) == IF values = <<>> THEN 0 ELSE Head(values) + SumOf(Tail(values))

RECURSIVE Ascending(_)
Ascending(values) ==
    IF values = <<>> THEN <<>>
    ELSE LET sorted == Ascending(Front(values))
             x == Last(values)
             k == Cardinality({i \in 1..Len(sorted) : sorted[i] <= x})
         IN SubSeq(sorted, 1, k) \o <<x>> \o SubSeq(sorted, k + 1, Len(sorted))

RECURSIVE GCD(_, _)
GCD(a, b) == IF b = 0 THEN a ELSE GCD(b, a % b)

\* the quotient n / d of two integers, d > 0, in lowest terms
Ratio(n, d) ==
    LET g == GCD(IF n < 0 THEN 0 - n ELSE n, d)
    IN [num |-> n \div g, den |-> d \div g]

\* d3.median without the averaging of the two middle values
MedianOfUpperMiddle(values) ==
    LET sorted == Ascending(values)
    IN Ratio(sorted[Len(sorted) \div 2 + 1], 1)

\* d3.median: the middle value, or the mean of the two middle values
MedianOf(values) ==
    LET sorted == Ascending(values)
        n == Len(sorted)
    IN IF n % 2 = 1 THEN Ratio(sorted[(n + 1) \div 2], 1)
       ELSE Ratio(sorted[n \div 2] + sorted[n \div 2 + 1], 2)

\* the stats memo on one value of sortedData; <<>> is null
StatsOf(visible, cols, start, end) ==
    IF start = <<>> \/ end = <<>> THEN <<>>
    ELSE LET minRow == Min(start[1].rowIndex, end[1].rowIndex)
             maxRow == Max(start[1].rowIndex, end[1].rowIndex)
             minCol == Min(start[1].colIndex, end[1].colIndex)
             maxCol == Max(start[1].colIndex, end[1].colIndex)
             scan == StatsScan(visible, cols, minRow, maxRow, minCol, maxCol)
             sorted == Ascending(scan.values)
         IN IF scan.values = <<>>
            THEN <<[cellCount |-> scan.cellCount, numericCount |-> 0]>>
            ELSE <<[cellCount |-> scan.cellCount,
                    numericCount |-> Len(scan.values),
                    sum |-> SumOf(scan.values),
                    avg |-> Ratio(SumOf(scan.values), Len(scan.values)),
                    median |-> MedianOf(scan.values),
                    min |-> sorted[1],
                    max |-> sorted[Len(sorted)]]>>

\* the values the stats memo can hold
statsOutcomes ==
    {StatsOf(visible, columns, selectionStart, selectionEnd) :
        visible \in sortedDataOutcomes}

(***************************************************************************)
(* The table under pointer selection, filtering, sorting and row           *)
(* lifecycle: three columns, so that a 2x3 block of cells exists.          *)
(***************************************************************************)
SelectTerms == {<<>>, <<"4">>}

SelectDatasets ==
    { << [a |-> Num(1), b |-> Num(2), c |-> Num(3)],
         [a |-> Num(4), b |-> Num(5), c |-> Num(6)] >>,
      << [a |-> Str(<<"3", "x">>), b |-> Str(<<"b">>), c |-> Num(4)],
         [a |-> Num(1), b |-> Str(<<"b">>), c |-> Num(2)] >> }

\* the column whose cells the pointer opens for editing
SelectColumns == {columns[1]}

\* the columns whose sort control the pointer uses
SortColumns == {columns[1], columns[2]}

InitSelect ==
    /\ columns = IngestColumns(<<"a", "b", "c">>)
    /\ data \in SelectDatasets
    /\ rowCount = Len(data)
    /\ data2 = <<>>
    /\ columns2 = <<>>
    /\ joinKey = ""
    /\ viewMode = "matches"
    /\ selectedRow = <<>>
    /\ inspected = <<>>
    /\ TableInit

\* positions of the rendered rows and of the rendered columns
RowPositions == 0..(Len(filteredData) - 1)
ColPositions == 0..(Len(columns) - 1)

NextSelect ==
    \/ \E r \in RowPositions, c \in ColPositions \cup {-1}, shiftKey \in BOOLEAN :
           CellMouseDown(r, c, shiftKey)
    \/ \E r \in RowPositions, c \in ColPositions : CellMouseEnter(r, c)
    \/ MouseUp
    \/ \E c \in ColPositions : SelectWholeColumn(c)
    \/ \E term \in SelectTerms : SetSearchTerm(term)
    \/ \E col \in SortColumns : ClickSort(col)
    \/ \E row \in VisibleRows, col \in SelectColumns : StartEditing(row, col)
    \/ CancelEditing
    \/ AddRow
    \/ \E row \in VisibleRows : DeleteRow(row)

SpecSelect == InitSelect /\ [][NextSelect]_vars

(***************************************************************************)
(* The comparison on files whose header has a column with an empty name    *)
(* (a header line such as ",id"), and on files that share no column.       *)
(***************************************************************************)
\* if (commonColumns.length === 0) return <No Common Columns>
incomparable == Len(commonColumns) = 0

BlankHeaders ==
    { [h1 |-> <<"", "id">>, h2 |-> <<"", "id">>],
      [h1 |-> <<"id", "">>, h2 |-> <<"", "id">>],
      [h1 |-> <<"y", "">>,  h2 |-> <<"id">>] }

BlankPool ==
    { ("" :> Str(<<"a">>)) @@ [id |-> Num(7), y |-> Num(1)],
      ("" :> Num(1)) @@ [id |-> Num(3), y |-> Num(1)] }

InitBlank ==
    /\ \E h \in BlankHeaders :
          /\ columns = IngestColumns(h.h1)
          /\ columns2 = IngestColumns(h.h2)
    /\ data \in SeqsOf({RowOn(columns, full) : full \in BlankPool}, 1, MaxRows)
    /\ data2 \in SeqsOf({RowOn(columns2, full) : full \in BlankPool}, 1, MaxRows)
    /\ rowCount = Len(data)
    /\ joinKey = InitialJoinKey(columns, columns2)
    /\ viewMode = "matches"
    /\ selectedRow = <<>>
    /\ inspected = <<>>
    /\ TableInit

SpecBlank == InitBlank /\ [][NextCompare]_vars

(***************************************************************************)
(* The filter on Greek text, where lower-casing depends on the context.    *)
(***************************************************************************)
FilterLetters == {"Α", "Σ"}
MaxTermLen == 2
FilterTerms == SeqsOf(FilterLetters, 0, MaxTermLen)

FilterPool ==
    { [name |-> Str(<<"Α", "Σ">>)],
      [name |-> Str(<<"α", "ς">>)],
      [name |-> Str(<<"σ", "α">>)],
      [name |-> Str(<<"α">>)] }

InitFilter ==
    /\ columns = IngestColumns(<<"name">>)
    /\ data \in SeqsOf(FilterPool, 1, MaxRows)
    /\ rowCount = Len(data)
    /\ data2 = <<>>
    /\ columns2 = <<>>
    /\ joinKey = ""
    /\ viewMode = "matches"
    /\ selectedRow = <<>>
    /\ inspected = <<>>
    /\ TableInit

NextFilter == \E term \in FilterTerms : SetSearchTerm(term)

SpecFilter == InitFilter /\ [][NextFilter]_vars

(***************************************************************************)
(* Opening cells and committing them as staged, with nothing typed.        *)
(***************************************************************************)
ReopenPool ==
    { [v |-> Num(2)],
      [v |-> Str(<<"b">>)],
      [v |-> Str(<<>>)],
      [v |-> Str(<<"0", "1">>)],
      [v |-> Str(<<"1", "2", ".", "0">>)],
      [v |-> Str(<<"1", ".">>)] }

InitReopen ==
    /\ columns = IngestColumns(<<"v">>)
    /\ data \in SeqsOf(ReopenPool, 1, MaxRows)
    /\ rowCount = Len(data)
    /\ data2 = <<>>
    /\ columns2 = <<>>
    /\ joinKey = ""
    /\ viewMode = "matches"
    /\ selectedRow = <<>>
    /\ inspected = <<>>
    /\ TableInit

NextReopen ==
    \/ \E row \in VisibleRows, col \in Range(columns) : StartEditing(row, col)
    \/ CancelEditing
    \/ SaveEditing

SpecReopen == InitReopen /\ [][NextReopen]_vars

(***************************************************************************)
(* The result table of the comparison: one DataTable whose data and        *)
(* columns props follow the view and the join key while its own sort and   *)
(* selection state stays.                                                  *)
(***************************************************************************)
\* the data prop of the result table
currentData ==
    IF viewMode = "matches" THEN comparisonResult.matches
    ELSE IF viewMode = "unique1" THEN comparisonResult.unique1
    ELSE comparisonResult.unique2

ViewPool1 ==
    { [id |-> Num(7), x |-> Num(1)],
      [id |-> Num(3), x |-> Num(1)] }

ViewPool2 ==
    { [id |-> Num(7), x |-> Num(3)],
      [id |-> Num(1), x |-> Str(<<"b">>)] }

InitView ==
    /\ columns = IngestColumns(<<"id", "x">>)
    /\ columns2 = IngestColumns(<<"id", "x">>)
    /\ data \in SeqsOf(ViewPool1, 1, MaxRows)
    /\ data2 \in SeqsOf(ViewPool2, 1, MaxRows)
    /\ rowCount = Len(data)
    /\ joinKey = InitialJoinKey(columns, columns2)
    /\ viewMode = "matches"
    /\ selectedRow = <<>>
    /\ inspected = <<>>
    /\ TableInit

\* the pointer presses cells of the last displayed column and uses that
\* column's sort control
NextView ==
    \/ \E k \in Range(columns) : SetJoinKey(k)
    \/ \E m \in {"matches", "unique1", "unique2"} : SetViewMode(m)
    \/ \E r \in 0..(Len(currentData) - 1) :
           CellMouseDown(r, Len(currentColumns) - 1, FALSE)
    \/ MouseUp
    \/ ClickSort(Last(currentColumns))

SpecView == InitView /\ [][NextView]_vars

(***************************************************************************)
(* Claims about the comparison engine.                                     *)
(***************************************************************************)
Comparable == joinKey # "" /\ Includes(commonColumns, joinKey)
KeyStr(row) == String(Get(row, joinKey))
HasPartner(row1) == \E j \in 1..Len(data2) : KeyStr(data2[j]) = KeyStr(row1)
IsWanted(row2) == \E i \in 1..Len(data) : KeyStr(data[i]) = KeyStr(row2)
\* the dataset-1 rows that have a partner, in dataset-1 order
Hits == SelectSeq(data, HasPartner)
\* the last dataset-2 row with the key of row1
LastPartner(row1) ==
    data2[CHOOSE j \in 1..Len(data2) :
            /\ KeyStr(data2[j]) = KeyStr(row1)
            /\ \A h \in (j + 1)..Len(data2) : KeyStr(data2[h]) # KeyStr(row1)]
DistinctKeys(rows) ==
    \A i, j \in 1..Len(rows) : i # j => KeyStr(rows[i]) # KeyStr(rows[j])
NoDuplicates(s) == \A i, j \in 1..Len(s) : i # j => s[i] # s[j]

\* C1: for a common join key, every dataset-1 row is emitted exactly once,
\* as a merged row or in unique1: |matches| + |unique1| = |dataset1.rows|.
C1_JoinCompleteLeft ==
    Comparable =>
        Len(comparisonResult.matches) + Len(comparisonResult.unique1) = Len(data)

C1_Witness ==
    /\ Comparable
    /\ Len(comparisonResult.matches) >= 1
    /\ Len(comparisonResult.unique1) >= 1

\* C2 as stated: for a common join key, duplicates allowed on either side,
\* |matches| + |unique2| = |dataset2.rows|.
C2_JoinCompleteRight ==
    Comparable =>
        Len(comparisonResult.matches) + Len(comparisonResult.unique2) = Len(data2)

\* C2 amended: the equation holds when no two rows of dataset 1 and no two
\* rows of dataset 2 share a stringified join-key value.
C2_JoinCompleteRightDistinct ==
    (Comparable /\ DistinctKeys(data) /\ DistinctKeys(data2)) =>
        Len(comparisonResult.matches) + Len(comparisonResult.unique2) = Len(data2)

C2_Witness ==
    /\ Comparable /\ DistinctKeys(data) /\ DistinctKeys(data2)
    /\ Len(comparisonResult.matches) >= 1
    /\ Len(comparisonResult.unique2) >= 1

\* C3: a dataset-1 row is in matches iff some dataset-2 row has the same
\* stringified key, otherwise it is in unique1 unmodified; unique2 is exactly
\* the dataset-2 rows, in order, whose stringified key is the key of no
\* dataset-1 row.
C3_Classification ==
    Comparable =>
        \A result \in {comparisonResult}, hits \in {Hits} :
            /\ Len(result.matches) = Len(hits)
            /\ \A p \in 1..Len(hits) :
                  Get(result.matches[p], joinKey) = Get(hits[p], joinKey)
            /\ result.unique1 = SelectSeq(data, LAMBDA r : ~HasPartner(r))
            /\ result.unique2 = SelectSeq(data2, LAMBDA r : ~IsWanted(r))

\* number 7 meets text "7", and both unique buckets are used
C3_Witness ==
    /\ Comparable
    /\ \E i \in 1..Len(data), j \in 1..Len(data2) :
          /\ Get(data[i], joinKey) = Num(7)
          /\ Get(data2[j], joinKey) = Str(<<"7">>)
          /\ Len(data2) = Len(comparisonResult.unique2) + 1
    /\ Len(comparisonResult.matches) >= 1
    /\ Len(comparisonResult.unique1) >= 1
    /\ Len(comparisonResult.unique2) >= 1

\* C4: when several dataset-2 rows share a stringified key, every matching
\* dataset-1 row is merged with the last of them and with no other, and no
\* dataset-1 row yields more than one merged row.
C4_LastWriteWins ==
    Comparable =>
        \A result \in {comparisonResult}, hits \in {Hits} :
            /\ Len(result.matches) <= Len(data)
            /\ Len(result.matches) = Len(hits)
            /\ \A p \in 1..Len(hits) : \A row2 \in {LastPartner(hits[p])} :
                  \A k \in Range(columns2) \ {joinKey} :
                      Get(result.matches[p], File2(k)) = Get(row2, k)

\* two dataset-2 rows with one key and different contents, and a match on it
C4_Witness ==
    /\ Comparable
    /\ \E i, j \in 1..Len(data2) :
          /\ i < j
          /\ KeyStr(data2[i]) = KeyStr(data2[j])
          /\ \E k \in Range(columns2) \ {joinKey} : data2[i][k] # data2[j][k]
          /\ \E r \in 1..Len(data) : KeyStr(data[r]) = KeyStr(data2[j])
    /\ Len(comparisonResult.matches) >= 1

\* C5: a merged row has exactly the join key (value of the dataset-1 row),
\* "(File 1) k" for every other key k of the dataset-1 row and "(File 2) k"
\* for every other key k of the matched dataset-2 row, with those values.
C5_MergedRowShape ==
    Comparable =>
        \A result \in {comparisonResult}, hits \in {Hits} :
            /\ Len(result.matches) <= Len(hits)
            /\ \A p \in 1..Len(result.matches) :
                  \A m \in {result.matches[p]}, row1 \in {hits[p]} :
                      \A row2 \in {LastPartner(row1)} :
                          /\ DOMAIN m = {joinKey}
                                \cup {File1(k) : k \in DOMAIN row1 \ {joinKey}}
                                \cup {File2(k) : k \in DOMAIN row2 \ {joinKey}}
                          /\ m[joinKey] = Get(row1, joinKey)
                          /\ \A k \in DOMAIN row1 \ {joinKey} : m[File1(k)] = row1[k]
                          /\ \A k \in DOMAIN row2 \ {joinKey} : m[File2(k)] = row2[k]

\* dataset1 [{id:1, x:"a"}], dataset2 [{id:1, x:"b"}], key id
C5_Witness ==
    /\ joinKey = "id"
    /\ data = <<[id |-> Num(1), x |-> Str(<<"a">>)]>>
    /\ data2 = <<[id |-> Num(1), x |-> Str(<<"b">>)]>>
    /\ comparisonResult.matches =
           <<("id" :> Num(1)) @@ ("(File 1) x" :> Str(<<"a">>))
                              @@ ("(File 2) x" :> Str(<<"b">>))>>

\* The order C6 describes: the key; per non-key dataset-1 column its File 1
\* name and, iff dataset 2 has the column, its File 2 name; then the File 2
\* name of every dataset-2 column not emitted so far.
RECURSIVE DescribedFile1Part(_)
DescribedFile1Part(cols1) ==
    IF cols1 = <<>> THEN <<>>
    ELSE LET c == Last(cols1)
         IN DescribedFile1Part(Front(cols1)) \o
            (IF c = joinKey THEN <<>>
             ELSE IF Includes(columns2, c) THEN <<File1(c), File2(c)>>
             ELSE <<File1(c)>>)

RECURSIVE DescribedFile2Part(_, _)
DescribedFile2Part(cols2, emitted) ==
    IF cols2 = <<>> THEN <<>>
    ELSE LET before == DescribedFile2Part(Front(cols2), emitted)
             c == Last(cols2)
         IN IF c = joinKey \/ Includes(emitted \o before, File2(c)) THEN before
            ELSE Append(before, File2(c))

DescribedOrder ==
    <<joinKey>> \o DescribedFile1Part(columns)
                \o DescribedFile2Part(columns2, DescribedFile1Part(columns))

\* C6 as stated: the merged column order is the described one and every
\* qualified column appears exactly once.
C6_ColumnOrder ==
    Comparable =>
        /\ matchViewColumns = DescribedOrder
        /\ NoDuplicates(matchViewColumns)

\* With duplicate-free column lists on both sides the described order is
\* what matchViewColumns yields (the part of C6 that does hold).
ColumnOrderOfDistinctColumns ==
    (Comparable /\ NoDuplicates(columns) /\ NoDuplicates(columns2)) =>
        /\ matchViewColumns = DescribedOrder
        /\ NoDuplicates(matchViewColumns)

\* C7: the per-row diff has one entry per column of the union of both
\* column lists; the join key is a match without diff; two numbers match iff
\* equal and otherwise carry diff = value2 - value1; two present values that
\* are not both numbers match iff their stringified forms are equal, without
\* diff; exactly one present is a mismatch without diff; none present is a
\* match.
Present(v) == v # Undefined

C7_FieldCase(e, r) ==
    LET v1 == Get(e.row, File1(r.col))
        v2 == Get(e.row, File2(r.col))
    IN IF r.col = e.key THEN r.isMatch /\ r.diff = Null
       ELSE IF Present(v1) /\ Present(v2) /\ v1.t = "num" /\ v2.t = "num"
            THEN /\ r.isMatch <=> (v1.n = v2.n)
                 /\ ~r.isMatch => r.diff = Num(v2.n - v1.n)
       ELSE IF Present(v1) /\ Present(v2)
            THEN /\ r.isMatch <=> (String(v1) = String(v2))
                 /\ r.diff = Null
       ELSE IF Present(v1) \/ Present(v2)
            THEN ~r.isMatch /\ r.diff = Null
       ELSE r.isMatch

C7_RowDiff ==
    inspected # <<>> =>
        LET e == inspected[1]
            union == Range(columns) \cup Range(columns2)
        IN /\ Len(e.out) = Cardinality(union)
           /\ \A c \in union : \E i \in 1..Len(e.out) : e.out[i].col = c
           /\ \A i \in 1..Len(e.out) : C7_FieldCase(e, e.out[i])

\* a diff with a numeric mismatch (3 - 1 = 2), a one-sided column and a
\* column absent on both sides
C7_Witness ==
    /\ inspected # <<>>
    /\ \E i, j, k \in 1..Len(inspected[1].out) :
          LET r == inspected[1].out
          IN /\ r[i].diff = Num(2) /\ ~r[i].isMatch
             /\ r[j].val1 = Missing /\ r[j].val2 # Missing /\ ~r[j].isMatch
             /\ r[k].val1 = Missing /\ r[k].val2 = Missing /\ r[k].isMatch

(***************************************************************************)
(* Claims about the view engine and the row lifecycle.                     *)
(***************************************************************************)
\* the row without the index the table attached to it
Cells(row) == [c \in DOMAIN row \ {"_originalIndex"} |-> row[c]]

\* the row carries the index of the Dataset row it is a copy of
CarriesItsPosition(row) ==
    /\ OriginalIndex(row) \in 0..(Len(data) - 1)
    /\ Cells(row) = data[OriginalIndex(row) + 1]

\* (every search term and sort spec of the model is the current one in
\* some reachable state, for every Dataset)
C8_IndexInvariant ==
    \A visible \in sortedDataOutcomes :
        /\ \A p \in 1..Len(visible) : CarriesItsPosition(visible[p])
        /\ \A p, q \in 1..Len(visible) :
              p # q => OriginalIndex(visible[p]) # OriginalIndex(visible[q])

\* (a step that neither opens an edit nor shortens the Dataset is neither)
C8_IssuedFromRow ==
    (editingCell' # editingCell \/ Len(data') < Len(data)) =>
        \A row \in VisibleRows :
            /\ \A col \in Range(columns) :
                  StartEditing(row, col) =>
                      /\ editingCell'[1].rowIndex \in 0..(Len(data) - 1)
                      /\ data[editingCell'[1].rowIndex + 1] = Cells(row)
            /\ DeleteRow(row) =>
                  \E i \in 1..Len(data) :
                      /\ data[i] = Cells(row)
                      /\ i - 1 = OriginalIndex(row)
                      /\ data' = SubSeq(data, 1, i - 1) \o SubSeq(data, i + 1, Len(data))

\* C8: for every search term and sort spec each visible row carries as
\* original index its position in the current Dataset, and an edit or a
\* delete issued from a visible row addresses that Dataset row.
C8_StableOriginalIndex == []C8_IndexInvariant /\ [][C8_IssuedFromRow]_vars

\* an edit opened on the only visible row, which is the second Dataset row
C8_Witness ==
    /\ searchTerm # <<>>
    /\ Len(data) = 2
    /\ Len(filteredData) = 1
    /\ OriginalIndex(filteredData[1]) = 1
    /\ editingCell = <<[rowIndex |-> 1, col |-> "name"]>>

\* C9 as stated: delete(i) removes exactly the row whose original index is
\* i (one row fewer) and every remaining row keeps the original index it had
\* before (it is found, with that index, in the new Dataset).
C9_DeleteKeepsIndices ==
    [][\A row \in VisibleRows :
          DeleteRow(row) =>
              /\ Len(data') = Len(data) - 1
              /\ \A j \in 1..Len(data) :
                    j # OriginalIndex(row) + 1 =>
                        \E q \in 1..Len(data') :
                            IndexedData(data')[q] = IndexedData(data)[j]]_vars

\* What delete(i) does: the rows before i keep their original index, the
\* rows after i have it lowered by one, the row i is gone.
DeleteRenumbers ==
    [][\A row \in VisibleRows :
          DeleteRow(row) =>
              LET i == OriginalIndex(row) + 1
              IN /\ Len(data') = Len(data) - 1
                 /\ \A j \in 1..(i - 1) : data'[j] = data[j]
                 /\ \A j \in (i + 1)..Len(data) : data'[j - 1] = data[j]]_vars

\* C10: committing an open edit on (i, c) yields a Dataset with the same
\* number of rows that differs from the previous one at most in cell (i, c),
\* and clears the edit state.
C10_CommitOneCell ==
    [][SaveEditing =>
          LET cell == editingCell[1]
          IN /\ Len(data') = Len(data)
             /\ rowCount' = rowCount
             /\ \A i \in 1..Len(data) :
                   /\ DOMAIN data'[i] = DOMAIN data[i]
                   /\ \A c \in DOMAIN data[i] :
                         (i # cell.rowIndex + 1 \/ c # cell.col) => data'[i][c] = data[i][c]
             /\ data'[cell.rowIndex + 1][cell.col] = FinalValue(editValue)
             /\ editingCell' = <<>>]_vars

\* a committed cell: a number in the text column, no edit open any more
C10_Witness ==
    /\ editingCell = <<>>
    /\ \E i \in 1..Len(data) : data[i]["name"] = Num(2)

(***************************************************************************)
(* Claims about the edit commit.                                           *)
(***************************************************************************)
\* the text round-trips through numeric parsing to the same representation
RoundTrips(text) == ~Number(text).nan /\ String(Num(Number(text).n)) = text

\* What C11 describes for a staged text.
DescribedCommit(text) ==
    IF \A i \in 1..Len(text) : text[i] = " " THEN Str(<<>>)
    ELSE IF RoundTrips(text) THEN Num(Number(text).n)
    ELSE Str(text)

\* C11 as stated: a commit stores empty text for an empty or whitespace-only
\* staged text, otherwise a number iff the staged text round-trips through
\* numeric parsing to the same canonical decimal representation, otherwise
\* the staged text; "12.0" commits as the number 12, "12." as the text "12.".
C11_CommitParsing ==
    [][SaveEditing =>
          /\ data'[1]["n"] = DescribedCommit(editValue)
          /\ editValue = <<"1", "2", ".", "0">> => data'[1]["n"] = Num(12)
          /\ editValue = <<"1", "2", ".">> => data'[1]["n"] = Str(editValue)]_vars

\* A decimal numeral: digits with at most one decimal point and at least
\* one digit, after an optional sign.
NumeralShape(text) ==
    LET body == IF text # <<>> /\ Head(text) \in {"-", "+"} THEN Tail(text) ELSE text
    IN /\ \A i \in 1..Len(body) : IsDigit(body[i]) \/ body[i] = "."
       /\ Cardinality({i \in 1..Len(body) : body[i] = "."}) <= 1
       /\ \E i \in 1..Len(body) : IsDigit(body[i])

\* the integer a zero-fraction numeral denotes
RECURSIVE NumeralValue(_)
NumeralValue(text) ==
    IF text = <<>> \/ Head(text) = "." THEN 0
    ELSE IF Head(text) = "-" THEN 0 - NumeralValue(Tail(text))
    ELSE IF Head(text) = "+" THEN NumeralValue(Tail(text))
    ELSE LET rest == Tail(text)
             width == Cardinality({i \in 1..Len(rest) :
                          \A j \in 1..i : IsDigit(rest[j])})
             digit == CHOOSE d \in 0..9 : Digit(d) = Head(text)
         IN digit * (10 ^ width) + NumeralValue(rest)

\* C11 amended: a commit stores empty text for an empty or whitespace-only
\* staged text; otherwise it stores a number iff the staged text, with the
\* surrounding whitespace removed, is a decimal numeral and the staged text
\* itself does not end with a decimal point, and then the number is the
\* numeral's value; otherwise it stores the staged text unchanged.
C11_CommitNumeral ==
    [][SaveEditing =>
          LET stored == data'[1]["n"]
              blank == \A i \in 1..Len(editValue) : editValue[i] = " "
              numeral == NumeralShape(Trim(editValue)) /\ Last(editValue) # "."
          IN /\ blank => stored = Str(<<>>)
             /\ (~blank /\ numeral) => stored = Num(NumeralValue(Trim(editValue)))
             /\ (~blank /\ ~numeral) => stored = Str(editValue)]_vars

\* "12.0" was committed as the number 12
C11_Witness ==
    /\ editingCell = <<>>
    /\ editValue = <<"1", "2", ".", "0">>
    /\ data[1]["n"] = Num(12)

(***************************************************************************)
(* Claims about filtering and sorting.                                     *)
(***************************************************************************)
SameLetter(a, b) ==
    \/ a = b
    \/ {a, b} \in {{"a", "A"}, {"b", "B"}, {"α", "Α"}}
    \/ {a, b} \subseteq {"Σ", "σ", "ς"}

\* text contains term, ignoring case
ContainsIgnoringCase(text, term) ==
    \E i \in 0..(Len(text) - Len(term)) :
        \A k \in 1..Len(term) : SameLetter(text[i + k], term[k])

\* the Dataset row at position i has a column whose stringified value
\* contains the search term ignoring case
Retained(i) ==
    \E c \in 1..Len(columns) :
        ContainsIgnoringCase(String(Get(data[i], columns[c])), searchTerm)

\* C12: the visible rows are exactly the rows with a column whose stringified
\* value contains the search term ignoring case, in their original relative
\* order; the empty term retains all rows in order.
C12_FilterExact ==
    \A visible \in {filteredData} :
        /\ \A p \in 1..Len(visible) :
              /\ OriginalIndex(visible[p]) + 1 \in 1..Len(data)
              /\ Retained(OriginalIndex(visible[p]) + 1)
              /\ Cells(visible[p]) = data[OriginalIndex(visible[p]) + 1]
        /\ \A i \in 1..Len(data) :
              Retained(i) => \E p \in 1..Len(visible) : OriginalIndex(visible[p]) = i - 1
        /\ \A p, q \in 1..Len(visible) :
              p < q => OriginalIndex(visible[p]) < OriginalIndex(visible[q])
        /\ searchTerm = <<>> => Len(visible) = Len(data)

\* the term "A" retains the row holding "Ab" and drops the row before it
C12_Witness ==
    /\ searchTerm = <<"A">>
    /\ Len(data) = 2
    /\ Len(filteredData) = 1
    /\ OriginalIndex(filteredData[1]) = 1
    /\ \E c \in 1..Len(columns) : Get(data[2], columns[c]) = Str(<<"A", "b">>)

NullKey(row) == Get(row, sortConfig[1].key) \in {Null, Undefined}

NullComparesAfter ==
    sortConfig # <<>> =>
        \A p, q \in 1..Len(filteredData) :
            (NullKey(filteredData[p]) /\ ~NullKey(filteredData[q])) =>
                /\ Comparator(filteredData[p], filteredData[q], sortConfig[1]) > 0
                /\ Comparator(filteredData[q], filteredData[p], sortConfig[1]) < 0

\* x precedes y lexicographically by code unit
LexLess(x, y) ==
    \E k \in 1..Len(y) :
        /\ \A j \in 1..(k - 1) : j <= Len(x) /\ x[j] = y[j]
        /\ k > Len(x) \/ CharCode(x[k]) < CharCode(y[k])

Sign(n) == IF n < 0 THEN -1 ELSE IF n > 0 THEN 1 ELSE 0

\* the order C14 describes for two non-null values, ascending: -1, 0 or 1
DescribedOrdering(a, b) ==
    IF a.t = "num" /\ b.t = "num" THEN Sign(a.n - b.n)
    ELSE IF LexLess(ToLowerCase(String(a)), ToLowerCase(String(b))) THEN -1
    ELSE IF LexLess(ToLowerCase(String(b)), ToLowerCase(String(a))) THEN 1
    ELSE 0

\* C14: for two non-null values the comparator compares numerically when
\* both are numbers and otherwise compares the lower-cased stringified forms
\* lexicographically; descending is exactly the negation of ascending.
C14_ComparatorOrder ==
    \A k \in Range(columns) : \A rows \in {filteredData} :
        \A p, q \in 1..Len(rows) :
            \A a \in {Get(rows[p], k)}, b \in {Get(rows[q], k)} :
                (a \notin {Null, Undefined} /\ b \notin {Null, Undefined}) =>
                    \A asc \in {Comparator(rows[p], rows[q], [key |-> k, direction |-> "asc"])},
                       desc \in {Comparator(rows[p], rows[q], [key |-> k, direction |-> "desc"])} :
                        /\ Sign(asc) = DescribedOrdering(a, b)
                        /\ desc = 0 - asc

\* sorted descending, with 2 and 10 (numeric order differs from text order)
\* and two texts that differ in case only
C14_Witness ==
    /\ sortConfig # <<>> /\ sortConfig[1].direction = "desc"
    /\ \E p, q \in 1..Len(data) :
          Get(data[p], "n") = Num(2) /\ Get(data[q], "n") = Num(10)
    /\ \E p \in 1..Len(data) : Get(data[p], "n") \in {Str(<<"b">>), Str(<<"B">>)}

\* two rows have equal sort keys: both null or absent, or two non-null
\* values that the described ordering does not separate
EqualKeys(r, s, k) ==
    \A a \in {Get(r, k)}, b \in {Get(s, k)} :
        IF a \in {Null, Undefined} \/ b \in {Null, Undefined}
        THEN a \in {Null, Undefined} /\ b \in {Null, Undefined}
        ELSE DescribedOrdering(a, b) = 0

PositionIn(visible, row) ==
    CHOOSE p \in 1..Len(visible) : OriginalIndex(visible[p]) = OriginalIndex(row)

\* C15 as stated: two rows with equal sort keys (two null or absent keys,
\* and values equal ignoring case, included) keep in the sorted sequence the
\* relative order they had in the filtered sequence.
C15_StableSort ==
    sortConfig # <<>> =>
        \A rows \in {filteredData} : \A visible \in sortedDataOutcomes :
            \A p, q \in 1..Len(rows) :
                (p < q /\ EqualKeys(rows[p], rows[q], sortConfig[1].key)) =>
                    PositionIn(visible, rows[p]) < PositionIn(visible, rows[q])

\* The same for Datasets whose key column holds no null or absent value and
\* does not mix numbers with texts: there the sort is stable.
StableOnPlainColumns ==
    (/\ sortConfig # <<>>
     /\ \A p \in 1..Len(data) : ~NullKey(data[p])
     /\ \A p, q \in 1..Len(data) :
           Get(data[p], sortConfig[1].key).t = Get(data[q], sortConfig[1].key).t) =>
        \A rows \in {filteredData} : \A visible \in sortedDataOutcomes :
            \A p, q \in 1..Len(rows) :
                (p < q /\ EqualKeys(rows[p], rows[q], sortConfig[1].key)) =>
                    PositionIn(visible, rows[p]) < PositionIn(visible, rows[q])

\* C16 as stated: sorting ascending by k a sequence that is already the
\* result of sorting ascending by k yields the identical sequence, for any
\* row set (null keys and columns mixing numbers and text included).
C16_SortIdempotent ==
    (sortConfig # <<>> /\ sortConfig[1].direction = "asc") =>
        \A once \in sortedDataOutcomes :
            \A twice \in SortOutcomes(once, sortConfig) : twice = once

\* The same for Datasets whose key column holds no null or absent value and
\* does not mix numbers with texts: there sorting again changes nothing.
IdempotentOnPlainColumns ==
    (/\ sortConfig # <<>> /\ sortConfig[1].direction = "asc"
     /\ \A p \in 1..Len(data) : ~NullKey(data[p])
     /\ \A p, q \in 1..Len(data) :
           Get(data[p], sortConfig[1].key).t = Get(data[q], sortConfig[1].key).t) =>
        \A once \in sortedDataOutcomes :
            \A twice \in SortOutcomes(once, sortConfig) : twice = once

(***************************************************************************)
(* Claims about selection, statistics and the row lifecycle.               *)
(***************************************************************************)
SelMinRow == Min(selectionStart[1].rowIndex, selectionEnd[1].rowIndex)
SelMaxRow == Max(selectionStart[1].rowIndex, selectionEnd[1].rowIndex)
SelMinCol == Min(selectionStart[1].colIndex, selectionEnd[1].colIndex)
SelMaxCol == Max(selectionStart[1].colIndex, selectionEnd[1].colIndex)
HasSelection == selectionStart # <<>> /\ selectionEnd # <<>>

\* the positions <<row, column>> of the selection rectangle
Rectangle == (SelMinRow..SelMaxRow) \X (SelMinCol..SelMaxCol)

\* the positions of the rectangle at which the visible sequence has a cell
CellsOn(visible) == {p \in Rectangle : p[1] >= 0 /\ p[1] < Len(visible)}

CellAt(visible, p) == Get(visible[p[1] + 1], columns[p[2] + 1])

IsNumericCell(visible, p) ==
    \/ CellAt(visible, p).t = "num"
    \/ ~ParseFloat(String(CellAt(visible, p))).nan

NumericValue(visible, p) ==
    IF CellAt(visible, p).t = "num" THEN CellAt(visible, p).n
    ELSE ParseFloat(String(CellAt(visible, p))).n

RECURSIVE SumOver(_, _)
SumOver(visible, cells) ==
    IF cells = {} THEN 0
    ELSE LET p == CHOOSE q \in cells : TRUE
         IN NumericValue(visible, p) + SumOver(visible, cells \ {p})

\* the k-th smallest value of the numeric cells
KthSmallest(visible, numeric, k) ==
    LET p == CHOOSE q \in numeric :
                 /\ Cardinality({o \in numeric :
                        NumericValue(visible, o) < NumericValue(visible, q)}) < k
                 /\ Cardinality({o \in numeric :
                        NumericValue(visible, o) <= NumericValue(visible, q)}) >= k
    IN NumericValue(visible, p)

\* what the statistics of the cells `cells` must be
DescribedStats(visible, stats, cells) ==
    LET numeric == {p \in cells : IsNumericCell(visible, p)}
        n == Cardinality(numeric)
    IN /\ stats # <<>>
       /\ stats[1].cellCount = Cardinality(cells)
       /\ stats[1].numericCount = n
       /\ stats[1].numericCount <= stats[1].cellCount
       /\ n = 0 => DOMAIN stats[1] = {"cellCount", "numericCount"}
       /\ n > 0 =>
            /\ DOMAIN stats[1] = {"cellCount", "numericCount", "sum", "avg",
                                  "median", "min", "max"}
            /\ stats[1].sum = SumOver(visible, numeric)
            /\ stats[1].avg.num * n = stats[1].sum * stats[1].avg.den
            /\ stats[1].median.num * 2 =
                   (KthSmallest(visible, numeric, (n + 1) \div 2)
                    + KthSmallest(visible, numeric, n \div 2 + 1)) * stats[1].median.den
            /\ stats[1].min = KthSmallest(visible, numeric, 1)
            /\ stats[1].max = KthSmallest(visible, numeric, n)

\* the block [[1,2,3],[4,5,6]] is visible and selected as a whole
BlockSelected(visible) ==
    /\ HasSelection
    /\ Len(visible) = 2
    /\ \A r \in 0..1, c \in 0..2 : CellAt(visible, <<r, c>>) = Num(3 * r + c + 1)
    /\ Rectangle = (0..1) \X (0..2)

BlockStats ==
    [cellCount |-> 6, numericCount |-> 6, sum |-> 21, avg |-> [num |-> 7, den |-> 2],
     median |-> [num |-> 7, den |-> 2], min |-> 1, max |-> 6]

SelectionWithin(visible, start, end) ==
    /\ start[1].rowIndex >= 0 /\ start[1].rowIndex < Len(visible)
    /\ end[1].rowIndex >= 0 /\ end[1].rowIndex < Len(visible)

\* C18: a step that changes the search term or the sort and thereby the
\* visible sequence leaves either no selection or a selection recomputed
\* for the new sequence: its two row positions lie on visible rows and
\* designate the rows they designated before.
C18_SelectionFollowsView ==
    [][ ( /\ searchTerm' # searchTerm \/ sortConfig' # sortConfig
          /\ sortedDataOutcomes' # sortedDataOutcomes
          /\ HasSelection )
        => \/ selectionStart' = <<>> /\ selectionEnd' = <<>>
           \/ /\ HasSelection'
              /\ \A before \in sortedDataOutcomes, after \in sortedDataOutcomes' :
                    /\ SelectionWithin(before, selectionStart, selectionEnd)
                          => SelectionWithin(after, selectionStart', selectionEnd')
                    /\ ( /\ SelectionWithin(before, selectionStart, selectionEnd)
                         /\ SelectionWithin(after, selectionStart', selectionEnd') )
                          => /\ after[selectionStart'[1].rowIndex + 1]
                                  = before[selectionStart[1].rowIndex + 1]
                             /\ after[selectionEnd'[1].rowIndex + 1]
                                  = before[selectionEnd[1].rowIndex + 1]
      ]_vars

\* C19: after a step that adds or deletes a row, no selection point has a
\* rowIndex at or beyond the number of visible rows and no open edit has an
\* original index at or beyond the number of rows.
C19_LifecycleInvalidates ==
    [][ Len(data') # Len(data)
        => /\ selectionStart' # <<>>
                => selectionStart'[1].rowIndex < Len(filteredData')
           /\ selectionEnd' # <<>>
                => selectionEnd'[1].rowIndex < Len(filteredData')
           /\ editingCell' # <<>>
                => editingCell'[1].rowIndex < Len(data')
      ]_vars

\* C19, the selection alone: violated as well
C19_SelectionInvalidated ==
    [][ (Len(data') # Len(data) /\ selectionStart' # <<>>)
        => selectionStart'[1].rowIndex < Len(filteredData') ]_vars

\* C19, the open edit alone: violated as well
C19_EditInvalidated ==
    [][ (Len(data') # Len(data) /\ editingCell' # <<>>)
        => editingCell'[1].rowIndex < Len(data') ]_vars

\* C20: in every reachable state, whatever commits, additions and deletions
\* led to it, the Dataset has as many rows as its metadata's rowCount says;
\* a deletion at an index outside the Dataset is not a change at all.
C20_RowCount ==
    /\ Len(data) = rowCount
    /\ \A originalIndex \in {-1, Len(data), Len(data) + 1} :
           ~ENABLED HandleDeleteRow(originalIndex)

\* C20 witness: the one row left was added blank and had its cell n
\* committed after the loaded rows were deleted.
C20_Witness ==
    /\ data = << [name |-> Str(<<>>), n |-> Num(2)] >>
    /\ rowCount = 1

(***************************************************************************)
(* Claims about the comparison view, the filter, the pointer protocol and  *)
(* the sort control.                                                       *)
(***************************************************************************)
AllBucketsEmpty ==
    /\ comparisonResult.matches = <<>>
    /\ comparisonResult.unique1 = <<>>
    /\ comparisonResult.unique2 = <<>>

\* C21: the incomparable condition is reported iff the two datasets share
\* no column name; then the join key is empty and the three buckets are
\* empty; with a shared column it is not reported, whatever the buckets.
C21_Incomparable ==
    /\ incomparable <=> Range(columns) \cap Range(columns2) = {}
    /\ incomparable => joinKey = "" /\ AllBucketsEmpty
    /\ (\E col \in Range(columns) : col \in Range(columns2)) => ~incomparable

\* C21 witness: no shared column, the condition is reported.
C21_Witness ==
    /\ Range(columns) \cap Range(columns2) = {}
    /\ incomparable
    /\ joinKey = ""

\* C21, the other case: a shared column, three empty buckets and no
\* incomparable condition (the join key is the column with the empty name).
C21_SharedButEmpty ==
    /\ ~incomparable
    /\ Range(columns) \cap Range(columns2) # {}
    /\ AllBucketsEmpty

FirstIndex(s, e) == CHOOSE i \in 1..Len(s) : s[i] = e /\ \A j \in 1..(i - 1) : s[j] # e

\* c comes before d in the union: dataset 1's columns, then the columns
\* only dataset 2 has
BeforeInUnion(c, d) ==
    IF c \in Range(columns)
    THEN d \notin Range(columns) \/ FirstIndex(columns, c) < FirstIndex(columns, d)
    ELSE d \notin Range(columns) /\ FirstIndex(columns2, c) < FirstIndex(columns2, d)

\* C22: the per-row diff has one entry per column of the union, every
\* mismatching column before every matching one, and among the mismatches
\* and among the matches the columns are in the order of the union.
C22_MismatchesFirst ==
    inspected # <<>> =>
        \A out \in {inspected[1].out} :
            /\ {out[i].col : i \in 1..Len(out)} = Range(columns) \cup Range(columns2)
            /\ Len(out) = Cardinality(Range(columns) \cup Range(columns2))
            /\ \A i \in 1..Len(out), j \in 1..Len(out) :
                   i < j => /\ ~(out[i].isMatch /\ ~out[j].isMatch)
                            /\ out[i].isMatch = out[j].isMatch
                                  => BeforeInUnion(out[i].col, out[j].col)

\* C22 witness: a diff in which a mismatching column was moved in front of
\* a matching column that precedes it in the union, with two matches and
\* two mismatches to keep in order.
C22_Witness ==
    /\ inspected # <<>>
    /\ \E i, j \in 1..Len(inspected[1].out) :
          /\ i < j
          /\ ~inspected[1].out[i].isMatch /\ inspected[1].out[j].isMatch
          /\ BeforeInUnion(inspected[1].out[j].col, inspected[1].out[i].col)
    /\ Cardinality({i \in 1..Len(inspected[1].out) : inspected[1].out[i].isMatch}) >= 2
    /\ Cardinality({i \in 1..Len(inspected[1].out) : ~inspected[1].out[i].isMatch}) >= 2

IsSubstring(t1, t2) ==
    \E i \in 0..(Len(t2) - Len(t1)) : SubSeq(t2, i + 1, i + Len(t1)) = t1

VisibleUnder(term) ==
    {OriginalIndex(row) : row \in Range(FilteredData(data, columns, term))}

\* C23: every row visible under the current search term is visible under
\* each term that is a substring of it.
C23_FilterMonotone ==
    \A t1 \in FilterTerms :
        IsSubstring(t1, searchTerm) => VisibleUnder(searchTerm) \subseteq VisibleUnder(t1)

\* C23 where no term ends in a capital sigma after a letter: holds
MonotoneWithoutFinalSigma ==
    (\A i \in 1..Len(searchTerm) : ~(searchTerm[i] = "Σ" /\ FinalSigma(searchTerm, i)))
        => C23_FilterMonotone

\* C24: a mouse-down on a cell without the modifier key sets start and end
\* to that cell and starts a drag; with the modifier key and a start point
\* it moves the end point only; a mouse-enter moves the end point only, and
\* only during a drag; a mouse-up ends the drag and keeps the range.
C24_PointerProtocol ==
    [][ /\ \A r \in RowPositions, c \in ColPositions :
            /\ CellMouseDown(r, c, FALSE)
                  => /\ selectionStart' = <<Point(r, c)>>
                     /\ selectionEnd' = <<Point(r, c)>>
                     /\ isSelecting'
            /\ (CellMouseDown(r, c, TRUE) /\ selectionStart # <<>>)
                  => /\ selectionEnd' = <<Point(r, c)>>
                     /\ selectionStart' = selectionStart
                     /\ isSelecting' = isSelecting
            /\ CellMouseEnter(r, c)
                  => /\ isSelecting
                     /\ selectionEnd' = <<Point(r, c)>>
                     /\ selectionStart' = selectionStart
                     /\ isSelecting' = isSelecting
            /\ ~isSelecting => ~ENABLED CellMouseEnter(r, c)
        /\ MouseUp
              => /\ ~isSelecting'
                 /\ selectionStart' = selectionStart
                 /\ selectionEnd' = selectionEnd
      ]_vars

\* C24 witness: a range over two cells that a finished drag or a
\* modifier-click left behind.
C24_Witness ==
    /\ HasSelection
    /\ selectionStart # selectionEnd
    /\ selectionStart[1].colIndex = selectionEnd[1].colIndex
    /\ ~isSelecting
    /\ editingCell = <<>>

\* C25: in every state in which a cell is in edit mode there is no
\* selection: neither a start point nor an end point.
C25_NoSelectionWhileEditing ==
    editingCell # <<>> => selectionStart = <<>> /\ selectionEnd = <<>>

\* C25, its first half: the step that opens an edit clears the selection
EditBeginsCleared ==
    [][ (editingCell' # <<>> /\ editingCell' # editingCell)
        => selectionStart' = <<>> /\ selectionEnd' = <<>> ]_vars

\* C25 with no drag in progress: the header's column selector still selects
NoSelectionWhileEditingWithoutDrag ==
    (editingCell # <<>> /\ ~isSelecting) => selectionStart = <<>> /\ selectionEnd = <<>>

\* C26: a step that changes the sort spec sets it to (k, descending) iff it
\* was (k, ascending) and to (k, ascending) in every other case, k a column
\* of the table; search term, selection and Dataset stay as they are.
C26_SortToggle ==
    [][ sortConfig' # sortConfig
        => /\ sortConfig' # <<>>
           /\ Includes(columns, sortConfig'[1].key)
           /\ sortConfig'[1].direction =
                 IF sortConfig = <<[key |-> sortConfig'[1].key, direction |-> "asc"]>>
                 THEN "desc" ELSE "asc"
           /\ UNCHANGED <<searchTerm, selectionStart, selectionEnd, data, columns, rowCount>>
      ]_vars

\* C26 witness: a descending sort reached with a selection and a search
\* term in place.
C26_Witness ==
    /\ sortConfig # <<>>
    /\ sortConfig[1].direction = "desc"
    /\ sortConfig[1].key = columns[2]
    /\ HasSelection
    /\ searchTerm # <<>>

\* C27: committing an edit whose staged text is the one the cell was opened
\* with leaves every cell of the Dataset, the edited one included, with the
\* value and the type it had.
C27_ReopenKeepsDataset ==
    [][ SaveEditing => data' = data ]_vars

\* C27 for the cells that hold a number, or a text that is not blank and
\* that Number() rejects or that ends with ".": holds
ReopenKeepsPlainCells ==
    [][ ( /\ SaveEditing
          /\ \A cell \in {Get(data[editingCell[1].rowIndex + 1], editingCell[1].col)} :
                \/ cell.t = "num"
                \/ /\ cell.t = "str"
                   /\ Trim(cell.s) # <<>>
                   /\ Number(cell.s).nan \/ EndsWith(cell.s, ".") )
        => data' = data ]_vars

\* cmp(a, b) and cmp(b, a) have opposite signs, or are both zero
OppositeSigns(rows, cfg) ==
    \A a, b \in 1..Len(rows) :
        Sign(Comparator(rows[a], rows[b], cfg)) = 0 - Sign(Comparator(rows[b], rows[a], cfg))

\* cmp(a, b) <= 0 and cmp(b, c) <= 0 imply cmp(a, c) <= 0
TransitiveOn(rows, cfg) ==
    \A a, b, c \in 1..Len(rows) :
        (Comparator(rows[a], rows[b], cfg) <= 0 /\ Comparator(rows[b], rows[c], cfg) <= 0)
            => Comparator(rows[a], rows[c], cfg) <= 0

\* C28: on the rows being sorted, in the direction of the sort, the
\* comparator gives opposite signs to the two orders of every pair of rows
\* (a row with itself included) and is transitive.
C28_ComparatorConsistent ==
    sortConfig # <<>> =>
        \A rows \in {filteredData} :
            OppositeSigns(rows, sortConfig[1]) /\ TransitiveOn(rows, sortConfig[1])

\* C28, the signs alone on columns without null: holds
OppositeSignsWithoutNull ==
    (sortConfig # <<>> /\ \A p \in 1..Len(data) : ~NullKey(data[p]))
        => OppositeSigns(filteredData, sortConfig[1])

\* C28, transitivity alone on columns without null: violated by a column
\* that mixes numbers and text
TransitiveWithoutNull ==
    (sortConfig # <<>> /\ \A p \in 1..Len(data) : ~NullKey(data[p]))
        => TransitiveOn(filteredData, sortConfig[1])

\* C28 on columns of numbers only or of text only: holds
ConsistentOnPlainColumns ==
    (/\ sortConfig # <<>>
     /\ \A p \in 1..Len(data) : ~NullKey(data[p])
     /\ \A p, q \in 1..Len(data) :
           Get(data[p], sortConfig[1].key).t = Get(data[q], sortConfig[1].key).t)
        => /\ OppositeSigns(filteredData, sortConfig[1])
           /\ TransitiveOn(filteredData, sortConfig[1])

\* C29: in the matches view a press on a cell of a merged row makes a row
\* of the result the selected row, with its per-field diff; in the unique1
\* and unique2 views the selected row stays null.
C29_ClickSelectsRow ==
    [][ \A r \in 0..(Len(currentData) - 1), c \in 0..(Len(currentColumns) - 1) :
            CellMouseDown(r, c, FALSE)
                => IF viewMode = "matches"
                   THEN /\ selectedRow' # <<>>
                        /\ selectedRow'[1] \in Range(currentData)
                        /\ selectedRowComparison' # <<>>
                   ELSE selectedRow' = <<>>
      ]_vars

\* C29: no row is ever the selected row, in any view: holds
SelectedRowNeverSet == selectedRow = <<>> /\ selectedRowComparison = <<>>

\* a selection point lies on a displayed row and a displayed column
Displayed(point) ==
    /\ point[1].rowIndex >= 0 /\ point[1].rowIndex < Len(currentData)
    /\ point[1].colIndex >= 0 /\ point[1].colIndex < Len(currentColumns)

\* C30: in the comparison view the table's sort key is none or one of the
\* displayed columns, and its selection lies within the displayed rows and
\* columns.
C30_TableStateDisplayed ==
    /\ sortConfig # <<>> => Includes(currentColumns, sortConfig[1].key)
    /\ selectionStart # <<>> => Displayed(selectionStart)
    /\ selectionEnd # <<>> => Displayed(selectionEnd)

\* C30, the sort key alone: violated as well
SortKeyDisplayed ==
    sortConfig # <<>> => Includes(currentColumns, sortConfig[1].key)

\* C30, the selection alone: violated as well
SelectionDisplayed ==
    /\ selectionStart # <<>> => Displayed(selectionStart)
    /\ selectionEnd # <<>> => Displayed(selectionEnd)

\* C30 for as long as neither the view nor the join key has been changed
\* since the table's state was set: holds on every step of the table itself
TableStepsStayDisplayed ==
    [][ (viewMode' = viewMode /\ joinKey' = joinKey /\ C30_TableStateDisplayed)
        => C30_TableStateDisplayed' ]_vars

====
